---- MODULE Spec2Model ----
(***************************************************************************)
(* HackerOneDiscordBot (src/src/main.js): the polling / dedup / dispatch   *)
(* loop, the two persisted files (log.txt, channel.txt), the constructor's *)
(* initializeFiles and the '.setup' command handler.                       *)
(*                                                                         *)
(* JavaScript runs one callback to its next await without interruption, so *)
(* one action is one such run-to-suspension: the completion of the awaited *)
(* operation together with the synchronous code that follows it.           *)
(***************************************************************************)
EXTENDS Integers, Sequences, FiniteSets, Bags, TLC

\* ---------------------------------------------------------------- bounds
MaxBatch    == 2   \* longest batch the feed returns
MaxActive   == 2   \* cycles that may be in flight together
MaxEvents   == 2   \* timer ticks, restarts, '.setup' messages and rejected
                   \* network or file operations, over the whole behaviour
MaxOverlap  == 1   \* cycles in flight together where the timer fires
                   \* without a bound (LiveSpec)

\* ------------------------------------------------------------ the world
NL == 0                               \* the character "\n"
Undefined == "undefined"              \* a field read before its assignment
NoChannel == "none"                   \* channel.txt absent / nothing resolved

\* Reports the feed can disclose: databaseId as its characters, team.currency.
Reports ==
  { [id |-> <<1>>,    currency |-> "USD"],
    [id |-> <<1, 2>>, currency |-> "ZZZ"],
    [id |-> <<3>>,    currency |-> "null"] }

Ids == { r.id : r \in Reports }

\* Channels of client.channels.cache; '.setup' arrives in one of them.
Channels == {"c1", "c2"}

\* An id left in channel.txt by an earlier run that the cache does not hold.
Stale == "gone"

VARIABLES
  this,        \* fields of the bot object: logFile, channelFile
  logFile,     \* log.txt on disk: [exists, lines]
  channelFile, \* channel.txt on disk: NoChannel or its content
  initpc,      \* position of initializeFiles
  accessArg,   \* the argument the pending fs.access was called with
  monpc,       \* position of client login / startHacktivityMonitoring
  channel,     \* the channel startHacktivityMonitoring resolved
  active,      \* the calls of checkHacktivityReports in flight (a bag)
  last,        \* the call of checkHacktivityReports that returned in the
               \* step just taken (FreeCycle when none did)
  ticks,       \* firings of the interval timer so far
  sent,        \* messages the destination has received (a bag)
  setup,       \* the pending setupMonitoringChannel call
  replies,     \* replies to '.setup' messages, in order
  nsetup,      \* '.setup' messages received so far
  restarts,    \* restarts so far
  persistFail, \* a ledger read or append has failed
  faults,      \* operations the environment has rejected so far
  gap,         \* ids whose send succeeded and whose append did not
  failed       \* ids whose send the destination has rejected

vars == <<this, logFile, channelFile, initpc, accessArg, monpc, channel,
          active, last, ticks, sent, setup, replies, nsetup, restarts,
          persistFail, faults, gap, failed>>

\* What the environment has done so far, against MaxEvents.
Events == ticks + restarts + nsetup + faults

\* ------------------------------------------------------ pure functions

\* The content of log.txt: every line followed by "\n" (appendFile, line 125).
RECURSIVE Content(_)
Content(lines) ==
  IF lines = <<>> THEN <<>>
  ELSE Head(lines) \o <<NL>> \o Content(Tail(lines))

\* Mutant of Includes: the log compared with the id (===) instead of searched.
IncludesStrictEquals(s, t) == s = t

\* String.prototype.includes: t occurs in s as a substring.
Includes(s, t) ==
  \E k \in 0..(Len(s) - Len(t)) : SubSeq(s, k + 1, k + Len(t)) = t

\* formatBounty: Intl.NumberFormat throws for a missing or ill-formed
\* currency code; a well-formed code it does not know is formatted as is.
FormatBountyThrows(currency) ==
  ~ (currency \in {"USD", "ZZZ"})

\* createReportEmbed throws exactly when formatBounty does.
CreateReportEmbedThrows(node) == FormatBountyThrows(node.currency)

\* fs.access(path): rejects for an invalid path argument or a missing file.
AccessRejects(arg, exists) == arg = Undefined \/ ~exists

\* Batches of pairwise distinct reports, at most MaxBatch long.
Batches ==
  { b \in UNION { [1..n -> Reports] : n \in 0..MaxBatch } :
      \A i, j \in DOMAIN b : i # j => b[i].id # b[j].id }

FreeCycle ==
  [pc |-> "free", first |-> FALSE, nodes |-> <<>>, log |-> <<>>,
   i |-> 0, ledger0 |-> <<>>, err |-> "none", skipped |-> {}, out |-> <<>>,
   app |-> <<>>, retry |-> {}]

\* -------------------------------------------------- construction, restart

\* new HackerOneDiscordBot(); bot.start(): initializeFiles() is called (line
\* 17) before logFile and channelFile are assigned (lines 18-19), so its
\* first fs.access receives the field's value at that moment; the
\* constructor then assigns both fields and start() begins the login.
Constructor ==
  LET atCall == [logFile |-> Undefined, channelFile |-> Undefined] IN
  /\ accessArg' = atCall.logFile
  /\ this' = [logFile |-> "log.txt", channelFile |-> "channel.txt"]
  /\ initpc' = "access_log"
  /\ monpc' = "login"
  /\ channel' = NoChannel
  /\ active' = EmptyBag
  /\ last' = FreeCycle
  /\ setup' = [pc |-> "idle", ch |-> NoChannel]

Init ==
  /\ accessArg = Undefined
  /\ this = [logFile |-> "log.txt", channelFile |-> "channel.txt"]
  /\ initpc = "access_log"
  /\ monpc = "login"
  /\ channel = NoChannel
  /\ active = EmptyBag
  /\ last = FreeCycle
  /\ setup = [pc |-> "idle", ch |-> NoChannel]
  /\ logFile = [exists |-> FALSE, lines |-> <<>>]
  /\ channelFile \in {NoChannel, Stale, "c1"}
  /\ ticks = 0
  /\ sent = EmptyBag
  /\ replies = <<>>
  /\ nsetup = 0
  /\ restarts = 0
  /\ persistFail = FALSE
  /\ faults = 0
  /\ gap = {}
  /\ failed = {}

\* The process stops (crash or kill) and is started again: memory is lost,
\* the two files and what the destination received stay.
Restart ==
  /\ Events < MaxEvents
  /\ restarts' = restarts + 1
  /\ Constructor
  /\ gap' = gap \cup { c.nodes[c.i].id :
                         c \in { d \in BagToSet(active) : d.pc = "append" } }
  /\ UNCHANGED <<logFile, channelFile, ticks, sent, replies, nsetup,
                 persistFail, faults, failed>>

\* --------------------------------------------------------- initializeFiles

\* await fs.access(this.logFile) settles; on rejection the catch block
\* issues fs.writeFile(this.logFile, '') with the field as it is now.
InitAccessLog ==
  /\ initpc = "access_log"
  /\ initpc' = IF AccessRejects(accessArg, logFile.exists)
               THEN "write_log" ELSE "access_chan"
  /\ accessArg' = IF AccessRejects(accessArg, logFile.exists)
                  THEN accessArg ELSE this.channelFile
  /\ UNCHANGED <<this, logFile, channelFile, monpc, channel, active, ticks,
                 sent, setup, replies, nsetup, restarts, persistFail, faults,
                 gap, failed>>
  /\ last' = FreeCycle

\* fs.writeFile(this.logFile, '') completes: the file exists and is empty.
InitWriteLog ==
  /\ initpc = "write_log"
  /\ this.logFile # Undefined
  /\ logFile' = [exists |-> TRUE, lines |-> <<>>]
  /\ initpc' = "access_chan"
  /\ accessArg' = this.channelFile
  /\ UNCHANGED <<this, channelFile, monpc, channel, active, ticks, sent,
                 setup, replies, nsetup, restarts, persistFail, faults,
                 gap, failed>>
  /\ last' = FreeCycle

\* await fs.access(this.channelFile) settles; either way nothing is written.
InitAccessChannel ==
  /\ initpc = "access_chan"
  /\ initpc' = "done"
  /\ UNCHANGED <<this, logFile, channelFile, accessArg, monpc, channel,
                 active, ticks, sent, setup, replies, nsetup, restarts,
                 persistFail, faults, gap, failed>>
  /\ last' = FreeCycle

\* ------------------------------------------------ checkHacktivityReports

\* The call itself (line 66): axios.post is issued and awaited. The record
\* notes the ledger's entries and the ids of rejected sends at that moment.
NewCycle(first) ==
  [FreeCycle EXCEPT !.pc = "fetch", !.first = first,
                    !.ledger0 = logFile.lines, !.retry = failed]

\* Mutant of Loop: an exception of createReportEmbed is caught per item and
\* the loop goes on with the next node.
RECURSIVE LoopCatchesPerItem(_, _)
LoopCatchesPerItem(c, i) ==
  IF i > Len(c.nodes) THEN [c EXCEPT !.pc = "done", !.i = i]
  ELSE IF Includes(c.log, c.nodes[i].id)
    THEN LoopCatchesPerItem([c EXCEPT !.skipped = @ \cup {i}], i + 1)
  ELSE IF CreateReportEmbedThrows(c.nodes[i])
    THEN LoopCatchesPerItem([c EXCEPT !.err = "format"], i + 1)
  ELSE [c EXCEPT !.pc = "send", !.i = i]

\* for (const node of nodes), lines 114-123, from position i to the next
\* await or to the end: an item whose id the log read includes is skipped;
\* otherwise the embed is built and channel.send is issued. An exception of
\* createReportEmbed leaves the loop for the catch block of line 128.
RECURSIVE Loop(_, _)
Loop(c, i) ==
  IF i > Len(c.nodes) THEN [c EXCEPT !.pc = "done", !.i = i]
  ELSE IF Includes(c.log, c.nodes[i].id)
    THEN Loop([c EXCEPT !.skipped = @ \cup {i}], i + 1)
  ELSE IF CreateReportEmbedThrows(c.nodes[i])
    THEN [c EXCEPT !.pc = "done", !.i = i, !.err = "format"]
  ELSE [c EXCEPT !.pc = "send", !.i = i]

\* Mutant of MonAfter: setInterval is reached only when the first cycle
\* ended without an error.
MonAfterOnlyOnSuccess(d) ==
  IF d.first /\ d.pc = "done"
  THEN IF d.err = "none" THEN "timer" ELSE "off"
  ELSE monpc

\* What startHacktivityMonitoring does when a call's record becomes d: the
\* first cycle is awaited (line 57) and setInterval follows its return.
MonAfter(d) == IF d.first /\ d.pc = "done" THEN "timer" ELSE monpc

\* The frame of a step that takes the call with record c to record d.
CycleStep(c, d) ==
  /\ active' = IF d.pc = "done"
               THEN active (-) SetToBag({c})
               ELSE (active (-) SetToBag({c})) (+) SetToBag({d})
  /\ last' = IF d.pc = "done" THEN d ELSE FreeCycle
  /\ monpc' = MonAfter(d)
  /\ UNCHANGED <<this, channelFile, initpc, accessArg, channel, ticks, setup,
                 replies, nsetup, restarts>>

\* axios.post resolves with a batch; fs.readFile(this.logFile) is issued.
FetchOK(c) ==
  /\ c.pc = "fetch"
  /\ \E nodes \in Batches :
       CycleStep(c, [c EXCEPT !.pc = "readlog", !.nodes = nodes])
  /\ UNCHANGED <<logFile, sent, persistFail, faults, gap, failed>>

\* Mutant of FetchFail: no catch block, so the rejection of the first cycle
\* reaches startHacktivityMonitoring's catch and setInterval is never called.
FetchFailUncaught(c) ==
  /\ c.pc = "fetch"
  /\ Events < MaxEvents
  /\ faults' = faults + 1
  /\ active' = active (-) SetToBag({c})
  /\ last' = [c EXCEPT !.pc = "done", !.err = "fetch"]
  /\ monpc' = IF c.first THEN "off" ELSE monpc
  /\ UNCHANGED <<this, channelFile, initpc, accessArg, channel, ticks, setup,
                 replies, nsetup, restarts>>
  /\ UNCHANGED <<logFile, sent, persistFail, gap, failed>>

\* axios.post rejects: the catch block logs and the call returns.
FetchFail(c) ==
  /\ c.pc = "fetch"
  /\ Events < MaxEvents
  /\ faults' = faults + 1
  /\ CycleStep(c, [c EXCEPT !.pc = "done", !.err = "fetch"])
  /\ UNCHANGED <<logFile, sent, persistFail, gap, failed>>

\* fs.readFile resolves with the file's content; the loop runs to its first
\* send.
ReadLogOK(c) ==
  /\ c.pc = "readlog"
  /\ logFile.exists
  /\ CycleStep(c, Loop([c EXCEPT !.log = Content(logFile.lines)], 1))
  /\ UNCHANGED <<logFile, sent, persistFail, faults, gap, failed>>

\* fs.readFile rejects (missing file, I/O error).
ReadLogFail(c) ==
  /\ c.pc = "readlog"
  /\ Events < MaxEvents
  /\ faults' = faults + 1
  /\ CycleStep(c, [c EXCEPT !.pc = "done", !.err = "read"])
  /\ persistFail' = TRUE
  /\ UNCHANGED <<logFile, sent, gap, failed>>

\* Mutant of SendOK: the message goes to the channel the registry names now.
SendOKReadsRegistry(c) ==
  /\ c.pc = "send"
  /\ sent' = sent (+) SetToBag({[ch |-> channelFile, id |-> c.nodes[c.i].id,
                                 reg |-> channelFile]})
  /\ CycleStep(c, [c EXCEPT !.pc = "append", !.out = Append(@, c.i)])
  /\ UNCHANGED <<logFile, persistFail, faults, gap, failed>>

\* channel.send resolves: the destination has the message (noted with what
\* the registry holds at that moment); fs.appendFile of the id is issued.
SendOK(c) ==
  /\ c.pc = "send"
  /\ sent' = sent (+) SetToBag({[ch |-> channel, id |-> c.nodes[c.i].id,
                                 reg |-> channelFile]})
  /\ CycleStep(c, [c EXCEPT !.pc = "append", !.out = Append(@, c.i)])
  /\ UNCHANGED <<logFile, persistFail, faults, gap, failed>>

\* Mutant of SendFail: the rejection is swallowed and the id recorded anyway.
SendFailRecords(c) ==
  /\ c.pc = "send"
  /\ Events < MaxEvents
  /\ faults' = faults + 1
  /\ CycleStep(c, [c EXCEPT !.pc = "append", !.err = "send"])
  /\ failed' = failed \cup {c.nodes[c.i].id}
  /\ UNCHANGED <<logFile, sent, persistFail, gap>>

\* channel.send rejects: the exception leaves the loop for the catch block.
SendFail(c) ==
  /\ c.pc = "send"
  /\ Events < MaxEvents
  /\ faults' = faults + 1
  /\ CycleStep(c, [c EXCEPT !.pc = "done", !.err = "send"])
  /\ failed' = failed \cup {c.nodes[c.i].id}
  /\ UNCHANGED <<logFile, sent, persistFail, gap>>

\* Mutant of AppendOK: fs.writeFile in place of fs.appendFile.
AppendOKOverwrites(c) ==
  /\ c.pc = "append"
  /\ logFile.exists
  /\ logFile' = [logFile EXCEPT !.lines = <<c.nodes[c.i].id>>]
  /\ CycleStep(c, [c EXCEPT !.pc = "pause", !.app = Append(@, c.nodes[c.i].id)])
  /\ UNCHANGED <<sent, persistFail, faults, gap, failed>>

\* fs.appendFile resolves: the id is the file's new last line; the 5 s
\* timeout is started.
AppendOK(c) ==
  /\ c.pc = "append"
  /\ logFile.exists
  /\ logFile' = [logFile EXCEPT !.lines = Append(@, c.nodes[c.i].id)]
  /\ CycleStep(c, [c EXCEPT !.pc = "pause", !.app = Append(@, c.nodes[c.i].id)])
  /\ UNCHANGED <<sent, persistFail, faults, gap, failed>>

\* fs.appendFile rejects: nothing is written, the catch block ends the call.
AppendFail(c) ==
  /\ c.pc = "append"
  /\ Events < MaxEvents
  /\ faults' = faults + 1
  /\ CycleStep(c, [c EXCEPT !.pc = "done", !.err = "append"])
  /\ persistFail' = TRUE
  /\ gap' = gap \cup {c.nodes[c.i].id}
  /\ UNCHANGED <<logFile, sent, failed>>

\* Mutant of PauseDone: the loop starts over from the first node.
PauseDoneStartsOver(c) ==
  /\ c.pc = "pause"
  /\ CycleStep(c, Loop(c, 1))
  /\ UNCHANGED <<logFile, sent, persistFail, faults, gap, failed>>

\* The 5 s timeout fires: the loop goes on with the next node.
PauseDone(c) ==
  /\ c.pc = "pause"
  /\ CycleStep(c, Loop(c, c.i + 1))
  /\ UNCHANGED <<logFile, sent, persistFail, faults, gap, failed>>

\* ---------------------------------------- login, startHacktivityMonitoring

\* The gateway reports 'ready' (the login handshake is a network exchange
\* that ends after the local file operations of initializeFiles); the
\* handler calls startHacktivityMonitoring, which issues the read of
\* channel.txt.
Ready ==
  /\ monpc = "login"
  /\ initpc = "done"
  /\ monpc' = "read_chan"
  /\ UNCHANGED <<this, logFile, channelFile, initpc, accessArg, channel,
                 active, ticks, sent, setup, replies, nsetup, restarts,
                 persistFail, faults, gap, failed>>
  /\ last' = FreeCycle

\* Mutant of ReadChannel: the first cycle is called whatever was read.
ReadChannelIgnoresMissing ==
  /\ monpc = "read_chan"
  /\ channel' = channelFile
  /\ monpc' = "first"
  /\ active' = SetToBag({NewCycle(TRUE)})
  /\ last' = FreeCycle
  /\ UNCHANGED <<this, logFile, channelFile, initpc, accessArg, ticks, sent,
                 setup, replies, nsetup, restarts, persistFail, faults,
                 gap, failed>>

\* fs.readFile(this.channelFile) settles (lines 48-57): a missing file
\* throws into the catch block, an id the cache does not hold returns, and
\* otherwise the first cycle is called with the resolved channel.
ReadChannel ==
  /\ monpc = "read_chan"
  /\ IF channelFile \in Channels
     THEN /\ channel' = channelFile
          /\ monpc' = "first"
          /\ active' = SetToBag({NewCycle(TRUE)})
     ELSE /\ monpc' = "off"
          /\ UNCHANGED <<channel, active>>
  /\ last' = FreeCycle
  /\ UNCHANGED <<this, logFile, channelFile, initpc, accessArg, ticks, sent,
                 setup, replies, nsetup, restarts, persistFail, faults,
                 gap, failed>>

\* The interval of line 58 fires: a new call of checkHacktivityReports, in
\* whatever state the earlier calls are.
Tick ==
  /\ monpc = "timer"
  /\ Events < MaxEvents
  /\ BagCardinality(active) < MaxActive
  /\ ticks' = ticks + 1
  /\ active' = active (+) SetToBag({NewCycle(FALSE)})
  /\ UNCHANGED <<this, logFile, channelFile, initpc, accessArg, monpc,
                 channel, sent, setup, replies, nsetup, restarts, persistFail,
                 faults, gap, failed>>
  /\ last' = FreeCycle

\* The same firing of the interval, not counted against MaxEvents: the
\* timer of line 58 is never cleared, so it fires again and again.
TimerFires ==
  /\ monpc = "timer"
  /\ BagCardinality(active) < MaxOverlap
  /\ active' = active (+) SetToBag({NewCycle(FALSE)})
  /\ UNCHANGED <<this, logFile, channelFile, initpc, accessArg, monpc,
                 channel, ticks, sent, setup, replies, nsetup, restarts,
                 persistFail, faults, gap, failed>>
  /\ last' = FreeCycle

\* ------------------------------------------------ setupMonitoringChannel

\* A '.setup' message arrives in channel ch (lines 29-42): a member without
\* the Administrator permission is answered at once; for an administrator
\* the write of channel.txt is issued.
SetupMessage(ch, admin) ==
  /\ monpc # "login"
  /\ setup.pc = "idle"
  /\ Events < MaxEvents
  /\ nsetup' = nsetup + 1
  /\ IF admin
     THEN /\ setup' = [pc |-> "write", ch |-> ch]
          /\ UNCHANGED replies
     ELSE /\ replies' = Append(replies, [ch |-> ch, text |-> "denied"])
          /\ UNCHANGED setup
  /\ UNCHANGED <<this, logFile, channelFile, initpc, accessArg, monpc,
                 channel, active, ticks, sent, restarts, persistFail, faults,
                 gap, failed>>
  /\ last' = FreeCycle

\* Mutant of SetupWritten: fs.appendFile in place of fs.writeFile; on a file
\* that holds an id the text becomes two ids run together, no channel's id.
SetupWrittenAppends ==
  /\ setup.pc = "write"
  /\ channelFile' = IF channelFile = NoChannel THEN setup.ch ELSE Stale
  /\ replies' = Append(replies, [ch |-> setup.ch, text |-> "set"])
  /\ setup' = [pc |-> "idle", ch |-> NoChannel]
  /\ UNCHANGED <<this, logFile, initpc, accessArg, monpc, channel, active,
                 ticks, sent, nsetup, restarts, persistFail, faults,
                 gap, failed>>
  /\ last' = FreeCycle

\* fs.writeFile(this.channelFile, channelId) resolves (lines 42-43): the
\* file holds the id and the confirmation is sent.
SetupWritten ==
  /\ setup.pc = "write"
  /\ channelFile' = setup.ch
  /\ replies' = Append(replies, [ch |-> setup.ch, text |-> "set"])
  /\ setup' = [pc |-> "idle", ch |-> NoChannel]
  /\ UNCHANGED <<this, logFile, initpc, accessArg, monpc, channel, active,
                 ticks, sent, nsetup, restarts, persistFail, faults,
                 gap, failed>>
  /\ last' = FreeCycle

\* fs.writeFile(this.channelFile, channelId) rejects: the exception leaves
\* setupMonitoringChannel and the 'messageCreate' handler, neither of which
\* catches it; line 43 is not reached and the file is as it was.
SetupWriteFail ==
  /\ setup.pc = "write"
  /\ Events < MaxEvents
  /\ faults' = faults + 1
  /\ setup' = [pc |-> "idle", ch |-> NoChannel]
  /\ UNCHANGED <<this, logFile, channelFile, initpc, accessArg, monpc,
                 channel, active, ticks, sent, replies, nsetup, restarts,
                 persistFail, gap, failed>>
  /\ last' = FreeCycle

\* ----------------------------------------------------------- specification

Next ==
  \/ Restart
  \/ InitAccessLog
  \/ InitWriteLog
  \/ InitAccessChannel
  \/ Ready
  \/ ReadChannel
  \/ Tick
  \/ \E c \in BagToSet(active) : FetchOK(c)
  \/ \E c \in BagToSet(active) : FetchFail(c)
  \/ \E c \in BagToSet(active) : ReadLogOK(c)
  \/ \E c \in BagToSet(active) : ReadLogFail(c)
  \/ \E c \in BagToSet(active) : SendOK(c)
  \/ \E c \in BagToSet(active) : SendFail(c)
  \/ \E c \in BagToSet(active) : AppendOK(c)
  \/ \E c \in BagToSet(active) : AppendFail(c)
  \/ \E c \in BagToSet(active) : PauseDone(c)
  \/ \E ch \in Channels : \E admin \in BOOLEAN : SetupMessage(ch, admin)
  \/ SetupWritten
  \/ SetupWriteFail

Spec == Init /\ [][Next]_vars

\* Some call of checkHacktivityReports in flight goes on: the operation it
\* awaits settles, one way or the other.
CycleAdvances ==
  \E c \in BagToSet(active) :
    \/ FetchOK(c) \/ FetchFail(c)
    \/ ReadLogOK(c) \/ ReadLogFail(c)
    \/ SendOK(c) \/ SendFail(c)
    \/ AppendOK(c) \/ AppendFail(c)
    \/ PauseDone(c)

\* One run of the process, as long as it lasts: no restart, and the interval
\* fires without a bound.
NextRun ==
  \/ InitAccessLog
  \/ InitWriteLog
  \/ InitAccessChannel
  \/ Ready
  \/ ReadChannel
  \/ TimerFires
  \/ CycleAdvances
  \/ \E ch \in Channels : \E admin \in BOOLEAN : SetupMessage(ch, admin)
  \/ SetupWritten
  \/ SetupWriteFail

\* Every awaited operation of a cycle settles in the end, and the interval
\* timer fires whenever it is installed.
LiveSpec ==
  Init /\ [][NextRun]_vars /\ WF_vars(CycleAdvances) /\ WF_vars(TimerFires)

\* ------------------------------------------------------- claim vocabulary

Range(q) == { q[k] : k \in DOMAIN q }

\* Ids the destination has received, and how often it received one.
SentIds == { m.id : m \in BagToSet(sent) }
Times(id) ==
  BagCardinality([m \in { x \in BagToSet(sent) : x.id = id } |-> sent[m]])

\* The calls of checkHacktivityReports the state records: those in flight
\* and the one that returned last.
Cycles == BagToSet(active) \cup {last}

\* The step is the return of the call with record c.
Returns(c) ==
  /\ c \in BagToSet(active)
  /\ active' = active (-) SetToBag({c})
  /\ restarts' = restarts

\* Currency codes the formatter has data for; "ZZZ" is well-formed and
\* unknown to it, "null" is what a missing code is converted to.
KnownCurrencies == {"USD"}

\* id is a whole line of the file content log.
IsLine(log, id) == Includes(<<NL>> \o log, <<NL>> \o id \o <<NL>>)

IsPrefix(p, q) == Len(p) <= Len(q) /\ SubSeq(q, 1, Len(p)) = p

\* The ids of the items a cycle has sent, in the order it sent them.
OutIds(c) == [k \in DOMAIN c.out |-> c.nodes[c.out[k]].id]

\* The cycles that are between the issue of a send and the end of the
\* pause that follows it.
MidItem ==
  [c \in { d \in BagToSet(active) : d.pc \in {"send", "append", "pause"} }
     |-> active[c]]

\* ------------------------------------------------------------------ claims

\* C1: in a cycle where the fetch, every format, every send and every
\* ledger read and append succeed (the batch's ids are pairwise distinct),
\* the items sent are exactly those whose id is not a whole line of the
\* ledger as read, each once and in batch order; every other item is
\* skipped; the cycle appends exactly the ids it sent.
C1_SendsExactlyNonEntries ==
  (last.pc = "done" /\ last.err = "none") =>
    /\ Range(last.out) =
         { j \in DOMAIN last.nodes : ~ IsLine(last.log, last.nodes[j].id) }
    /\ \A k, l \in DOMAIN last.out : k < l => last.out[k] < last.out[l]
    /\ last.skipped =
         { j \in DOMAIN last.nodes : IsLine(last.log, last.nodes[j].id) }
    /\ last.app = OutIds(last)

\* C2: an item whose id is a ledger entry when the cycle starts is neither
\* sent nor appended by that cycle.
C2_IdempotentFiltering ==
  \A c \in Cycles :
    \A j \in DOMAIN c.nodes :
      c.nodes[j].id \in Range(c.ledger0) =>
        /\ j \notin Range(c.out)
        /\ c.nodes[j].id \notin Range(c.app)

\* C2 witness: a cycle skipped an item recorded before it started and sent
\* another item of the same batch.
C2_Witness ==
  \E c \in Cycles :
    /\ c.out # <<>>
    /\ \E j \in c.skipped : c.nodes[j].id \in Range(c.ledger0)

\* C3: every id in the ledger has been received by the destination; no
\* state holds an appended id whose send has not completed.
C3_SendThenRecord ==
  \A k \in DOMAIN logFile.lines : logFile.lines[k] \in SentIds

\* C3 witness: the ledger holds two entries.
C3_Witness == Len(logFile.lines) = 2

\* C4: while the process has not been restarted, the destination receives
\* an id twice only if a persistence failure came between a successful send
\* of it and its append; with no such failure no id is received twice.
C4_NoDuplicateSend ==
  restarts = 0 => \A id \in Ids : Times(id) <= 1 \/ id \in gap

\* C5: at most one cycle is active at any time.
C5_CyclesSerialized == BagCardinality(active) <= 1

\* C6 as claimed: when a cycle returns, the ledger holds exactly as many
\* entries more than when the cycle started as the cycle has sent items.
C6_GrowthEqualsSends ==
  [][\A c \in BagToSet(active) :
       Returns(c) =>
         Len(logFile'.lines) - Len(last'.ledger0) = Len(last'.out)]_vars

\* C6 as amended: a cycle appends one entry per item it has sent, in the
\* order sent, less the last one while that append is pending or when it
\* failed; the ledger never holds fewer entries than when the cycle started
\* plus those the cycle appended.
C6_AppendsFollowSends ==
  \A c \in Cycles :
    LET pending == IF c.pc = "append" \/ c.err = "append" THEN 1 ELSE 0
    IN  /\ Len(c.app) = Len(c.out) - pending
        /\ c.app = SubSeq(OutIds(c), 1, Len(c.app))
        /\ Len(logFile.lines) >= Len(c.ledger0) + Len(c.app)

\* C6 witness: a cycle started on a ledger with an entry has sent an item
\* whose append then failed.
C6_Witness ==
  /\ last.pc = "done"
  /\ last.err = "append"
  /\ last.ledger0 # <<>>
  /\ Len(last.out) = 1

\* C7: every step leaves the ledger's entries as a prefix of the new ones.
C7_LedgerAppendOnly ==
  [][IsPrefix(logFile.lines, logFile'.lines)]_vars

\* C8: the items a cycle sends are sent in strictly increasing batch
\* position, and the destination has received each of them.
C8_OrderPreserved ==
  \A c \in Cycles :
    /\ \A k \in DOMAIN c.out : c.out[k] \in DOMAIN c.nodes
    /\ \A k, l \in DOMAIN c.out : k < l => c.out[k] < c.out[l]
    /\ Range(OutIds(c)) \subseteq SentIds

\* C8 witness: a cycle has sent two items of its batch.
C8_Witness == \E c \in Cycles : Len(c.out) = 2

\* C9: the step in which a cycle returns from its feed request (the
\* request failed) makes no send, leaves the ledger, the registry and what
\* the destination received unchanged, and leaves the interval timer
\* installed.
C9_FetchFailure ==
  [][\A c \in BagToSet(active) :
       (c.pc = "fetch" /\ Returns(c)) =>
         /\ last'.err = "fetch"
         /\ last'.out = <<>>
         /\ last'.app = <<>>
         /\ UNCHANGED <<logFile, channelFile, sent>>
         /\ monpc' = "timer"]_vars

\* C9 witness: the first cycle's fetch failed and the timer is installed.
C9_Witness ==
  /\ last.pc = "done"
  /\ last.err = "fetch"
  /\ last.first
  /\ monpc = "timer"

\* C10: a cycle that a failed send has ended (every item of the batch can
\* be formatted) leaves no novel item after the failed one unattempted.
C10_SendErrorDoesNotHalt ==
  LET formattable ==
        \A j \in DOMAIN last.nodes : ~ CreateReportEmbedThrows(last.nodes[j])
  IN  (last.pc = "done" /\ last.err = "send" /\ formattable) =>
        \A j \in (last.i + 1)..Len(last.nodes) :
          IsLine(last.log, last.nodes[j].id)

\* C11: a cycle that a failed send has ended has not appended the failed
\* item's id; and a cycle that began after the send of an id failed skips an
\* item with that id only if the id is by then an entry of the ledger it
\* read (otherwise the item is novel again and its send is attempted).
C11_FailedSendRetried ==
  \A c \in Cycles :
    /\ c.err = "send" => c.nodes[c.i].id \notin Range(c.app)
    /\ \A j \in c.skipped :
         c.nodes[j].id \in c.retry => IsLine(c.log, c.nodes[j].id)

C13_NoDestinationNoMonitoring ==
  [][restarts' = restarts =>
       /\ (monpc = "read_chan" /\ monpc' # monpc
             /\ channelFile \notin Channels) => monpc' = "off"
       /\ monpc = "off" =>
            /\ monpc' = "off"
            /\ active = EmptyBag /\ active' = EmptyBag
            /\ ticks' = ticks
            /\ sent' = sent]_vars

\* C13 witness: monitoring ended at startup on a stale channel id.
C13_Witness ==
  /\ monpc = "off"
  /\ channelFile = Stale

\* C14: when monitoring starts with a resolved channel the first cycle is in
\* flight at once, and from then on cycles are started infinitely often,
\* whatever errors the cycles (the first included) have met.
C14_CyclesForever ==
  /\ [](monpc = "first" => \E c \in BagToSet(active) : c.first)
  /\ <>(monpc \in {"first", "timer"}) => []<><<TimerFires>>_vars

\* C14 witness: the timer is installed and a cycle it started is in flight
\* after a send and a ledger operation have failed.
C14_Witness ==
  /\ monpc = "timer"
  /\ failed # {}
  /\ persistFail
  /\ active # EmptyBag

\* C15: a step of initializeFiles leaves a ledger file that exists as it
\* is, content included, and when initializeFiles ends the file exists (an
\* absent one has been created empty).
C15_InitializeIdempotent ==
  [][(initpc # "done" /\ initpc' # initpc /\ restarts' = restarts) =>
       /\ logFile.exists => logFile' = logFile
       /\ ~ logFile.exists => logFile'.lines = <<>>
       /\ initpc' = "done" => logFile'.exists]_vars

\* C16: while the process runs, a '.setup' message is either answered with
\* the rejection at once, the registry unchanged, or (administrator) its
\* write is issued; a pending write ends with the confirmation reply to
\* that channel and the registry holding its id; nothing else changes the
\* registry. So every command gets exactly one reply.
C16_SetupAlwaysReplied ==
  [][restarts' = restarts =>
       /\ nsetup' = nsetup + 1 =>
            /\ channelFile' = channelFile
            /\ \/ setup'.pc = "write" /\ replies' = replies
               \/ /\ setup' = setup
                  /\ Len(replies') = Len(replies) + 1
                  /\ replies'[Len(replies')].text = "denied"
       /\ (setup.pc = "write" /\ setup'.pc = "idle") =>
            /\ replies' = Append(replies, [ch |-> setup.ch, text |-> "set"])
            /\ channelFile' = setup.ch
       /\ channelFile' # channelFile => setup.pc = "write"]_vars

C18_FilterSeesCompletedAppends ==
  [][\A c \in BagToSet(active') :
       (c.pc = "send" /\ CopiesIn(c, active') > CopiesIn(c, active)) =>
         c.nodes[c.i].id \notin Range(logFile.lines)]_vars

\* C19: a cycle issues the send of an item only when every item it sent
\* before has been appended and its pause is over, appends only the item
\* it has just sent, and pauses only after that append; and no send is
\* issued to the destination while the send, append or pause of another
\* one is still going on.
C19_PacedSends ==
  /\ \A c \in BagToSet(active) :
       /\ c.pc = "send" => c.app = OutIds(c) /\ c.i \notin Range(c.out)
       /\ c.pc = "append" =>
            /\ c.out # <<>> /\ c.out[Len(c.out)] = c.i
            /\ c.app = SubSeq(OutIds(c), 1, Len(c.out) - 1)
       /\ c.pc = "pause" =>
            /\ c.out # <<>> /\ c.out[Len(c.out)] = c.i
            /\ c.app = OutIds(c)
  /\ BagCardinality(MidItem) <= 1

\* C20: every message is sent to the channel startHacktivityMonitoring
\* resolved, which only that startup step (or a new process) sets, from the
\* registry as it is then; and once a startup has found no destination the
\* running process starts no cycle, whatever '.setup' does afterwards.
C20_ResolvedOnceAtStartup ==
  [][/\ \A m \in BagToSet(sent') :
          CopiesIn(m, sent') > CopiesIn(m, sent) =>
            m.ch = channel /\ channel \in Channels
     /\ (channel' # channel /\ restarts' = restarts) =>
          monpc = "read_chan" /\ channel' = channelFile
     /\ (monpc = "off" /\ restarts' = restarts) =>
          monpc' = "off" /\ active' = EmptyBag]_vars

\* C20 witness: a message went to the channel resolved at startup when the
\* registry already named the other channel.
C20_Witness ==
  \E m \in BagToSet(sent) : m.ch = "c1" /\ m.reg = "c2" /\ channel = "c1"

====
